---- MODULE Spec2Model ----
(***************************************************************************)
(* Model of InferAnki/functions/tts_handler.py (SpeechifyTTSProcessor).    *)
(*                                                                         *)
(* Text is a sequence of characters; a character is a one-character        *)
(* string, except three code points written by name:                       *)
(*   "U+1F538" the bullet glyph, "U+27E8" / "U+27E9" the angle brackets    *)
(*   of the pause placeholders.                                            *)
(* A Python value is a record [type, val]: val is the text of a str and    *)
(* the empty sequence for every other type.                                *)
(***************************************************************************)
EXTENDS Integers, Sequences, FiniteSets, TLC

----------------------------------------------------------------------------
(* Characters and character classes                                        *)

BULLET == "U+1F538"
LANGLE == "U+27E8"
RANGLE == "U+27E9"

\* Python's \s and str.strip() whitespace, restricted to the ASCII members.
Whitespace == {" ", "\t", "\n", "\r", "\f"}

IsSpace(c) == c \in Whitespace

UpperCase == <<"A","B","C","D","E","F","G","H","I","J","K","L","M",
               "N","O","P","Q","R","S","T","U","V","W","X","Y","Z">>
LowerCase == <<"a","b","c","d","e","f","g","h","i","j","k","l","m",
               "n","o","p","q","r","s","t","u","v","w","x","y","z">>

\* re.IGNORECASE: letters compare by their lower-case form.
Lower(c) ==
  IF \E k \in 1..26 : UpperCase[k] = c
  THEN LowerCase[CHOOSE k \in 1..26 : UpperCase[k] = c]
  ELSE c

----------------------------------------------------------------------------
(* Regular-expression machinery: re.sub and str.replace                    *)

\* The literal lit occurs in s at position i.
MatchLit(s, i, lit) ==
  /\ i >= 1
  /\ i + Len(lit) - 1 <= Len(s)
  /\ \A k \in 1..Len(lit) : s[i + k - 1] = lit[k]

\* The same under re.IGNORECASE (lit is written in lower case).
MatchLitI(s, i, lit) ==
  /\ i >= 1
  /\ i + Len(lit) - 1 <= Len(s)
  /\ \A k \in 1..Len(lit) : Lower(s[i + k - 1]) = lit[k]

\* The first position j in lo..hi with P[j] (hi + 1 when there is none).
First(lo, hi, P) ==
  IF \E j \in lo..hi : P[j]
  THEN CHOOSE j \in lo..hi : P[j] /\ \A k \in lo..(j - 1) : ~P[k]
  ELSE hi + 1

\* Greedy \s* from position i: the first position at or after i that holds
\* no whitespace (Len(s) + 1 when there is none).
SkipSpace(s, i) ==
  IF i > Len(s) THEN i
  ELSE First(i, Len(s), [j \in 1..Len(s) |-> ~IsSpace(s[j])])

\* [^>]* followed by '>': the position of the first '>' at or after i
\* (0 when there is none).
FindClose(s, i) ==
  LET j == First(i, Len(s), [k \in 1..Len(s) |-> s[k] = ">"])
  IN  IF i > Len(s) \/ j > Len(s) THEN 0 ELSE j

\* The length of the run of character c starting at position i.
RunLen(s, i, c) ==
  IF i > Len(s) THEN 0
  ELSE First(i, Len(s), [j \in 1..Len(s) |-> s[j] # c]) - i

\* re.sub(pattern, repl, s): m[i] is the length of the pattern's match at
\* position i (0: no match there).  Matches are taken leftmost first and do
\* not overlap; no pattern of this module matches the empty string.  The
\* text up to the next match is copied, the match is replaced, and the scan
\* resumes after it.
RECURSIVE SubFrom(_, _, _, _)
SubFrom(s, m, repl, i) ==
  LET j == First(i, Len(s), [k \in 1..Len(s) |-> m[k] > 0])
  IN  IF j > Len(s) THEN SubSeq(s, i, Len(s))
      ELSE SubSeq(s, i, j - 1) \o repl \o SubFrom(s, m, repl, j + m[j])

ReSub(s, m, repl) == SubFrom(s, m, repl, 1)

\* The one element of a singleton set.  A pass written
\*   Only({ f(v) : v \in {s} })
\* is f(s) with s evaluated first, as a statement of the code evaluates its
\* operand before it runs.
Only(S) == CHOOSE x \in S : TRUE

\* s.replace(lit, repl) / re.sub of a literal pattern.
Replace(s, lit, repl) ==
  Only({ ReSub(v, [i \in 1..Len(v) |-> IF MatchLit(v, i, lit) THEN Len(lit) ELSE 0], repl)
         : v \in {s} })

\* str.strip()
StripValue(s) ==
  LET n  == Len(s)
      lo == First(1, n, [j \in 1..n |-> ~IsSpace(s[j])])
  IN  IF lo > n THEN <<>>
      ELSE SubSeq(s, lo, CHOOSE hi \in lo..n :
                           /\ ~IsSpace(s[hi])
                           /\ \A k \in (hi + 1)..n : IsSpace(s[k]))

Strip(s) == Only({ StripValue(v) : v \in {s} })

----------------------------------------------------------------------------
(* The patterns of process_text_for_tts                                    *)

\* <br\s*/?>  (IGNORECASE)
BrLen(s, i) ==
  IF ~MatchLitI(s, i, <<"<", "b", "r">>) THEN 0
  ELSE LET j == SkipSpace(s, i + 3)
           k == IF j <= Len(s) /\ s[j] = "/" THEN j + 1 ELSE j
       IN  IF k <= Len(s) /\ s[k] = ">" THEN k - i + 1 ELSE 0

\* <br\s*/?>\s*<br\s*/?>  (IGNORECASE)
DoubleBrLen(s, i) ==
  LET n1 == BrLen(s, i)
  IN  IF n1 = 0 THEN 0
      ELSE LET j  == SkipSpace(s, i + n1)
               n2 == BrLen(s, j)
           IN  IF n2 = 0 THEN 0 ELSE j + n2 - i

\* (?:<[^>]*>)?BULLET : the position just after the bullet glyph of a match
\* starting at i (0: no match at i).
BulletHead(s, i) ==
  IF i > Len(s) THEN 0
  ELSE IF s[i] = "<"
       THEN LET c == FindClose(s, i + 1)
            IN  IF c > 0 /\ c + 1 <= Len(s) /\ s[c + 1] = BULLET THEN c + 2 ELSE 0
  ELSE IF s[i] = BULLET THEN i + 1
  ELSE 0

\* .*? followed by the double break: the end of the first double break that
\* starts at or after position j (0 when there is none).
RECURSIVE FirstDoubleBrEnd(_, _)
FirstDoubleBrEnd(s, j) ==
  IF j > Len(s) THEN 0
  ELSE IF DoubleBrLen(s, j) > 0 THEN j + DoubleBrLen(s, j)
  ELSE FirstDoubleBrEnd(s, j + 1)

\* (?:<[^>]*>)?BULLET.*?<br\s*/?>\s*<br\s*/?>  (IGNORECASE | DOTALL)
BulletBlockLen(s, i) ==
  LET h == BulletHead(s, i)
  IN  IF h = 0 THEN 0
      ELSE LET e == FirstDoubleBrEnd(s, h)
           IN  IF e = 0 THEN 0 ELSE e - i

\* (?:<[^>]*>)?BULLET.*$  (IGNORECASE | DOTALL)
BulletTailLen(s, i) ==
  IF BulletHead(s, i) = 0 THEN 0 ELSE Len(s) - i + 1

\* <name[^>]*>  and  </?name[^>]*>  (IGNORECASE), name in lower case
OpenTagLen(s, i, name) ==
  IF ~MatchLitI(s, i, <<"<">> \o name) THEN 0
  ELSE LET c == FindClose(s, i + 1 + Len(name))
       IN  IF c = 0 THEN 0 ELSE c - i + 1

AnyTagLen(s, i, name) ==
  IF MatchLitI(s, i, <<"<", "/">> \o name)
  THEN LET c == FindClose(s, i + 2 + Len(name))
       IN  IF c = 0 THEN 0 ELSE c - i + 1
  ELSE OpenTagLen(s, i, name)

\* </name>\s*<name[^>]*>  (IGNORECASE)
BoundaryLen(s, i, name) ==
  IF ~MatchLitI(s, i, <<"<", "/">> \o name \o <<">">>) THEN 0
  ELSE LET j == SkipSpace(s, i + 3 + Len(name))
           n == OpenTagLen(s, j, name)
       IN  IF n = 0 THEN 0 ELSE j + n - i

\* <[^>]+>
TagLen(s, i) ==
  IF i + 1 <= Len(s) /\ s[i] = "<" /\ s[i + 1] # ">"
  THEN LET c == FindClose(s, i + 2)
       IN  IF c = 0 THEN 0 ELSE c - i + 1
  ELSE 0

\* \s*c\s*
SpacedLen(s, i, c) ==
  LET j == SkipSpace(s, i)
  IN  IF j <= Len(s) /\ s[j] = c THEN SkipSpace(s, j + 1) - i ELSE 0

\* \s+-\s+
SpacedDashLen(s, i) ==
  LET j == SkipSpace(s, i)
  IN  IF j > i /\ j <= Len(s) /\ s[j] = "-" /\ SkipSpace(s, j + 1) > j + 1
      THEN SkipSpace(s, j + 1) - i
      ELSE 0

\* \r?\n+
NewlinesLen(s, i) ==
  IF i > Len(s) THEN 0
  ELSE IF s[i] = "\r" /\ RunLen(s, i + 1, "\n") > 0 THEN 1 + RunLen(s, i + 1, "\n")
  ELSE RunLen(s, i, "\n")

\* \.{n,}  and  \.{n}
DotsAtLeastLen(s, i, n) ==
  IF RunLen(s, i, ".") >= n THEN RunLen(s, i, ".") ELSE 0

DotsExactLen(s, i, n) ==
  IF RunLen(s, i, ".") >= n THEN n ELSE 0

\* \s+
SpacesLen(s, i) == SkipSpace(s, i) - i

----------------------------------------------------------------------------
(* Python values                                                           *)

Str(s) == [type |-> "str", val |-> s]
None   == [type |-> "NoneType", val |-> <<>>]
Int0   == [type |-> "int", val |-> <<>>]
\* b"a": not a string, and not empty
BytesA == [type |-> "bytes", val |-> <<"a">>]

\* The speech rate is a float with one decimal, held in tenths (8 is 0.8).
\* f'{rate}' prints it as digit, point, digit.
Digits == <<"0", "1", "2", "3", "4", "5", "6", "7", "8", "9">>

FormatRate(r) == <<Digits[(r \div 10) + 1], ".", Digits[(r % 10) + 1]>>

NeutralRate == 10

----------------------------------------------------------------------------
(* process_text_for_tts, pass by pass                                      *)

\* FIRST: remove bullet-introduced blocks (one definition per re.sub).
SubBulletBlock(s) ==
  Only({ ReSub(v, [i \in 1..Len(v) |-> BulletBlockLen(v, i)], <<>>) : v \in {s} })
SubBulletTail(s) ==
  Only({ ReSub(v, [i \in 1..Len(v) |-> BulletTailLen(v, i)], <<>>) : v \in {s} })

StripBullets(s) == SubBulletTail(SubBulletBlock(s))

\* SECOND: the html_entities table, in the order of the dict.
html_entities ==
  << << <<"&","n","b","s","p",";">>,         <<" ">> >>,
     << <<"&","a","m","p",";">>,             <<"&">> >>,
     << <<"&","q","u","o","t",";">>,         <<"\"">> >>,
     << <<"&","a","p","o","s",";">>,         <<"'">> >>,
     << <<"&","#","3","9",";">>,             <<"'">> >>,
     << <<"&","m","d","a","s","h",";">>,     <<"U+2014">> >>,
     << <<"&","n","d","a","s","h",";">>,     <<"U+2013">> >>,
     << <<"&","h","e","l","l","i","p",";">>, <<".", ".", ".">> >>,
     << <<"&","r","s","q","u","o",";">>,     <<"'">> >>,
     << <<"&","l","s","q","u","o",";">>,     <<"'">> >>,
     << <<"&","r","d","q","u","o",";">>,     <<"\"">> >>,
     << <<"&","l","d","q","u","o",";">>,     <<"\"">> >> >>

RECURSIVE ReplaceTable(_, _, _)
ReplaceTable(s, table, k) ==
  IF k > Len(table) THEN s
  ELSE Only({ ReplaceTable(v, table, k + 1)
              : v \in {Replace(s, table[k][1], table[k][2])} })

DecodeEntities(s) == ReplaceTable(s, html_entities, 1)

LongPause  == <<" ", ".", ".", ".", " ">>
ShortPause == <<" ", ".", ".", " ">>

\* THIRD: breaks, list items, lists and divs.
SubDoubleBr(s) ==
  Only({ ReSub(v, [i \in 1..Len(v) |-> DoubleBrLen(v, i)], LongPause) : v \in {s} })
SubBr(s) ==
  Only({ ReSub(v, [i \in 1..Len(v) |-> BrLen(v, i)], ShortPause) : v \in {s} })

HandleBreaks(s) == SubBr(SubDoubleBr(s))

SubBoundary(s, name) ==
  Only({ ReSub(v, [i \in 1..Len(v) |-> BoundaryLen(v, i, name)], ShortPause) : v \in {s} })
SubAnyTag(s, name) ==
  Only({ ReSub(v, [i \in 1..Len(v) |-> AnyTagLen(v, i, name)], <<" ">>) : v \in {s} })
HandleLists(s) ==
  SubAnyTag(SubAnyTag(SubAnyTag(SubBoundary(s, <<"l", "i">>),
                                <<"l", "i">>), <<"u", "l">>), <<"o", "l">>)

HandleDivs(s) ==
  SubAnyTag(SubBoundary(s, <<"d", "i", "v">>), <<"d", "i", "v">>)

\* FOURTH: strip the remaining tags.
StripTags(s) ==
  Only({ ReSub(v, [i \in 1..Len(v) |-> TagLen(v, i)], <<>>) : v \in {s} })
\* FIFTH: the deferred angle-bracket entities.
DecodeAngleEntities(s) ==
  Replace(Replace(s, <<"&","l","t",";">>, <<"<">>), <<"&","g","t",";">>, <<">">>)

Comma == <<",", " ">>

\* SIXTH: pipes, space-bounded dashes and angle brackets become commas.
SubSpaced(s, c) ==
  Only({ ReSub(v, [i \in 1..Len(v) |-> SpacedLen(v, i, c)], Comma) : v \in {s} })
ConvertPipes(s) == SubSpaced(s, "|")

ConvertDashes(s) ==
  Only({ ReSub(v, [i \in 1..Len(v) |-> SpacedDashLen(v, i)], Comma) : v \in {s} })
ConvertAngles(s) == SubSpaced(SubSpaced(s, "<"), ">")

\* Force a pause after every real line break.
ConvertNewlines(s) ==
  Only({ ReSub(v, [i \in 1..Len(v) |-> NewlinesLen(v, i)], LongPause) : v \in {s} })
\* Multiple dots to pauses, through placeholders.
LONG_PAUSE == <<LANGLE, "L","O","N","G","_","P","A","U","S","E", RANGLE>>
MED_PAUSE  == <<LANGLE, "M","E","D","_","P","A","U","S","E", RANGLE>>

SubDotsAtLeast(s, n, repl) ==
  Only({ ReSub(v, [i \in 1..Len(v) |-> DotsAtLeastLen(v, i, n)], repl) : v \in {s} })
SubDotsExact(s, n, repl) ==
  Only({ ReSub(v, [i \in 1..Len(v) |-> DotsExactLen(v, i, n)], repl) : v \in {s} })
\* The dot pass without its longest-first step.
DotsToPlaceholdersNoLongest(s) ==
  SubDotsExact(SubDotsExact(s, 3, LONG_PAUSE), 2, MED_PAUSE)

DotsToPlaceholders(s) ==
  SubDotsExact(SubDotsExact(SubDotsAtLeast(s, 4, LONG_PAUSE), 3, LONG_PAUSE),
               2, MED_PAUSE)

PlaceholdersToPauses(s) ==
  Replace(Replace(s, LONG_PAUSE, LongPause), MED_PAUSE, ShortPause)

ConvertDots(s) == PlaceholdersToPauses(DotsToPlaceholders(s))

\* SEVENTH: collapse whitespace and trim.
\* Whitespace left as it is.
KeepSpaces(s) == s

CollapseSpaces(s) ==
  Only({ ReSub(v, [i \in 1..Len(v) |-> SpacesLen(v, i)], <<" ">>) : v \in {s} })
CleanWhitespace(s) == Strip(CollapseSpaces(s))

\* The text reaching the dash pass (lines 88-144), the text reaching the dot
\* pass (lines 147-154) and the text after the last pass before the
\* speech-rate wrapper (lines 157-167).
BeforeDashes(s) ==
  ConvertPipes(DecodeAngleEntities(StripTags(HandleDivs(HandleLists(
    HandleBreaks(DecodeEntities(StripBullets(Strip(s)))))))))

DashesToDots(s) == ConvertNewlines(ConvertAngles(s))

DotsToClean(s) == CleanWhitespace(s)

ProsodyOpen(r) ==
  <<"<","p","r","o","s","o","d","y"," ","r","a","t","e","=","\"">>
    \o FormatRate(r) \o <<"\"", ">">>
ProsodyClose == <<"<","/","p","r","o","s","o","d","y",">">>

\* The wrapper applied whatever the rate.
ApplySpeechRateAlways(s, rate) == ProsodyOpen(rate) \o s \o ProsodyClose

\* Apply speech rate control using SSML (if not default rate).
ApplySpeechRate(s, rate) ==
  IF rate # NeutralRate
  THEN ProsodyOpen(rate) \o s \o ProsodyClose
  ELSE s

\* The emptiness test alone, whatever the type.
NoTextFalsy(text) == text.val = <<>>

\* not text or not isinstance(text, str)
NoText(text) == text.type # "str" \/ text.val = <<>>

\* The intermediate texts of one call, pass by pass.
Passes(text) ==
  Only({ Only({ Only({ Only({
    [reach_dash |-> d, after_dash |-> a, reach_dots |-> r, after_dots |-> o,
     clean |-> DotsToClean(o)]
    : o \in {ConvertDots(r)} })
    : r \in {DashesToDots(a)} })
    : a \in {ConvertDashes(d)} })
    : d \in {BeforeDashes(text.val)} })

NoPasses ==
  [reach_dash |-> <<>>, after_dash |-> <<>>, reach_dots |-> <<>>,
   after_dots |-> <<>>, clean |-> <<>>]

\* Final check - if result is empty, return empty.
FinalCheck(s) == IF s = <<>> THEN <<>> ELSE s

\* One call: what it returns, and the intermediate texts it went through.
Call_process_text_for_tts(text, rate) ==
  IF NoText(text) THEN [result |-> <<>>, passes |-> NoPasses]
  ELSE Only({ [result |-> FinalCheck(ApplySpeechRate(p.clean, rate)), passes |-> p]
              : p \in {Passes(text)} })

process_text_for_tts(text, rate) == Call_process_text_for_tts(text, rate).result

----------------------------------------------------------------------------
(* Bounds and inputs                                                       *)

\* The number of fragments an input text is made of.
MaxFrags == 3

\* The number of process_text calls of one run.
MaxCalls == 2

RECURSIVE Concats(_, _)
Concats(F, k) ==
  IF k = 0 THEN {<<>>}
  ELSE {<<>>} \cup {f \o w : f \in F, w \in Concats(F, k - 1)}

DotFrags  == {<<"a">>, <<".">>, <<".", ".">>, <<".", ".", ".">>, <<" ", "\n">>}
DashFrags == {<<"a">>, <<" ", "-", " ">>, <<"-", " ", "b">>, <<"|">>, <<" ", "<">>}
TagFrags  == {<<"a">>, <<"<", "b", ">">>, <<"<", "B", "R", " ", "/", ">">>,
              <<"<", "/", "l", "i", ">">>, <<"<", "l", "i", ">">>}
EntityFrags == {<<"a">>, <<"&", "a", "m", "p", ";">>, <<"l", "t", ";">>,
                <<"&", "c", "o", "p", "y", ";">>, <<"&", "n", "b", "s", "p", ";">>}
BulletFrags == {<<"a">>, <<BULLET>>, <<"<", "b", "r", ">">>, <<"<", "i", ">">>,
                <<"<", "/", "d", "i", "v", ">", " ", "<", "d", "i", "v", ">">>}

PlainFrags == {<<"a">>, <<"b", " ">>, <<" ">>, <<"\t">>, <<"\n">>,
               <<"\r", "\n">>}

SepFrags == {<<"a", " ", "|", " ">>, <<"b", "|">>, <<"c", " ", "-", " ">>,
             <<"d">>, <<" ", "<", " ", ">">>, <<"<", ">">>}

\* "hei | verden - test < >", the input of the processing test
SeparatorExample ==
  <<"h", "e", "i", " ", "|", " ", "v", "e", "r", "d", "e", "n", " ", "-", " ",
    "t", "e", "s", "t", " ", "<", " ", ">">>

Texts ==
  Concats(DotFrags, MaxFrags) \cup Concats(DashFrags, MaxFrags)
    \cup Concats(TagFrags, MaxFrags) \cup Concats(EntityFrags, MaxFrags)
    \cup Concats(BulletFrags, MaxFrags) \cup Concats(SepFrags, MaxFrags)
    \cup Concats(PlainFrags, MaxFrags) \cup {SeparatorExample}

Values == {Str(w) : w \in Texts} \cup {None, Int0, BytesA}

\* Speech rates in tenths: 0.8 (the default), 1.0 (neutral), 1.5.
Rates == {8, NeutralRate, 15}

----------------------------------------------------------------------------
(* State                                                                   *)

VARIABLES
  \* process_text_for_tts: its argument (in process_text the local `text`),
  \* the processor's speech rate in tenths, what the last call returned, the
  \* intermediate texts of that call, the first result, and how many times
  \* the caller has applied the function (the second time to its own output)
  text, speech_rate, result, passes, first, applied,
  \* the processor's configuration and the module flag
  enabled, SPEECHIFY_AVAILABLE, api_key, max_chars,
  \* the configuration mapping given to the constructor, the voice name and
  \* voice id it resolved, and whether the constructor has run
  config, voice_name, voice_id, constructed,
  \* the editor's note, the temporary directory, the media collection, the
  \* clock in seconds
  note, files, media, clock,
  \* process_text: where the call stands, its locals, its return value, the
  \* calls made so far
  pc, audio_path, ret, calls,
  \* what the current call has done so far: the note as it was at the call,
  \* whether the field was read, the text normalized, the audio field
  \* cleared, how many synthesis requests were sent, the files written
  note_at_call, field_read, normalized, cleared, synth_calls, created

normVars == <<text, speech_rate, result, passes, first, applied>>
configVars ==
  <<enabled, SPEECHIFY_AVAILABLE, api_key, max_chars, config, voice_name,
    voice_id, constructed>>
worldVars == <<note, files, media, clock>>
callVars == <<pc, audio_path, ret, calls>>
traceVars == <<note_at_call, field_read, normalized, cleared, synth_calls, created>>
procVars == <<configVars, worldVars, callVars, traceVars>>

vars == <<normVars, procVars>>

NoPath == <<>>
NoNote == [names |-> <<>>, fields |-> <<>>]

\* A key the configuration mapping does not hold.
Missing == "<missing>"

\* config.get(key, default)
Get(value, default) == IF value = Missing THEN default ELSE value

\* The processor was built from a configuration that names no voice.
DefaultVoice ==
  /\ config = [tts_enabled |-> Missing, speechify_voice_id |-> Missing,
               tts_voice |-> Missing]
  /\ voice_name = "Emma"
  /\ voice_id = "scott"
  /\ constructed = TRUE

\* No process_text call is in progress and none was made.
ProcIdle ==
  /\ pc = "idle"
  /\ audio_path = NoPath
  /\ ret = FALSE
  /\ calls = 0
  /\ note_at_call = NoNote
  /\ field_read = FALSE
  /\ normalized = FALSE
  /\ cleared = FALSE
  /\ synth_calls = 0
  /\ created = {}

InitNorm ==
  /\ text \in Values
  /\ speech_rate \in Rates
  /\ result = <<>>
  /\ passes = NoPasses
  /\ first = <<>>
  /\ applied = 0
  /\ enabled = FALSE
  /\ SPEECHIFY_AVAILABLE = FALSE
  /\ api_key = ""
  /\ max_chars = 0
  /\ note = NoNote
  /\ files = {}
  /\ media = {}
  /\ clock = 1
  /\ DefaultVoice
  /\ ProcIdle

\* result = processor.process_text_for_tts(text)
Normalize ==
  /\ applied = 0
  /\ \E call \in {Call_process_text_for_tts(text, speech_rate)} :
       /\ result' = call.result
       /\ passes' = call.passes
       /\ first' = call.result
  /\ applied' = 1
  /\ UNCHANGED <<text, speech_rate, procVars>>

\* result = processor.process_text_for_tts(result)
Renormalize ==
  /\ applied = 1
  /\ text' = Str(result)
  /\ \E call \in {Call_process_text_for_tts(Str(result), speech_rate)} :
       /\ result' = call.result
       /\ passes' = call.passes
  /\ applied' = 2
  /\ UNCHANGED <<speech_rate, first, procVars>>

NextNorm == Normalize \/ Renormalize

SpecNorm == InitNorm /\ [][NextNorm]_vars

----------------------------------------------------------------------------
(* process_text: field -> normalize -> synthesize -> attach                *)

audio_fields == <<"Audio", "audio", "Sound", "sound">>

\* field in editor.note
HasField(n, name) == \E i \in 1..Len(n.names) : n.names[i] = name

\* for field in audio_fields: if field in editor.note: ...; break
\* ("" when the note has none of them)
FindAudioField(n) ==
  LET hits == {k \in 1..Len(audio_fields) : HasField(n, audio_fields[k])}
  IN  IF hits = {} THEN ""
      ELSE audio_fields[CHOOSE k \in hits : \A h \in hits : k <= h]

\* editor.note[name] = v
SetField(n, name, v) ==
  [n EXCEPT !.fields =
     [i \in 1..Len(n.fields) |-> IF n.names[i] = name THEN v ELSE n.fields[i]]]

\* Raw content of field index 1 (the second field), "" when there is none.
get_field_content(n) == IF Len(n.fields) > 1 THEN n.fields[2] ELSE <<>>

\* The first audio field found is set to "".
clear_audio_field(n) ==
  IF FindAudioField(n) = "" THEN n ELSE SetField(n, FindAudioField(n), <<>>)

\* f"[sound:{media_name}]"
Sound(media_name) == <<"[sound:">> \o media_name \o <<"]">>

\* f"inferanki-speechify-tts-{now}.{self.audio_format}", now to the second
TempPath(now) == <<"inferanki-speechify-tts-", Digits[now + 1], ".mp3">>

\* not s or not s.strip()
IsEmptyText(s) == s = <<>> \/ Strip(s) = <<>>

\* The placeholder alone counts as a configured key.
KeyMissing(key) == key = ""

\* not self.api_key or self.api_key == "your-api-key-here"
KeyNotConfigured(key) == key = "" \/ key = "your-api-key-here"

\* The limit itself counts as too long.
AtLeast(s, max) == Len(s) >= max

\* len(text) > self.max_chars
TooLong(s, max) == Len(s) > max

ApiKeys == {"", "your-api-key-here", "sk-live"}
MaxCharsValues == {3, 4}
Front == <<"o", "r", "d">>
OldSound == Sound(<<"old.mp3">>)
FieldTexts ==
  {<<>>, <<" ">>, <<"h", "e", "i">>, <<"<", "i", ">">>,
   <<"a", ".", ".", "b">>, <<"a", " ", "|", " ", "b">>}
NoteTypes ==
  {<<"Front">>, <<"Front", "Back">>, <<"Front", "Back", "Audio">>,
   <<"Front", "Back", "Sound", "audio">>}
Notes ==
  {[names |-> ns,
    fields |-> [i \in 1..Len(ns) |->
                  IF i = 1 THEN Front ELSE IF i = 2 THEN t ELSE a]]
     : ns \in NoteTypes, t \in FieldTexts, a \in {<<>>, OldSound}}

\* After construction: the processor is disabled when the vendor library
\* could not be imported.
Init ==
  /\ text = None
  /\ speech_rate \in {8, NeutralRate}
  /\ result = <<>>
  /\ passes = NoPasses
  /\ first = <<>>
  /\ applied = 0
  /\ SPEECHIFY_AVAILABLE \in BOOLEAN
  /\ enabled \in BOOLEAN
  /\ enabled => SPEECHIFY_AVAILABLE
  /\ api_key \in ApiKeys
  /\ max_chars \in MaxCharsValues
  /\ note \in Notes
  /\ files = {}
  /\ media = {}
  /\ clock = 1
  /\ DefaultVoice
  /\ ProcIdle

\* return False
ReturnFalse == pc' = "returned" /\ ret' = FALSE

\* process_text is entered: the three configuration guards.
process_text_config ==
  /\ pc = "idle"
  /\ calls < MaxCalls
  /\ note_at_call' = note
  /\ field_read' = FALSE
  /\ normalized' = FALSE
  /\ cleared' = FALSE
  /\ synth_calls' = 0
  /\ created' = {}
  /\ text' = None
  /\ audio_path' = <<>>
  /\ IF ~enabled \/ ~SPEECHIFY_AVAILABLE \/ KeyNotConfigured(api_key)
     THEN ReturnFalse
     ELSE pc' = "get_field_content" /\ ret' = ret
  /\ UNCHANGED <<speech_rate, result, passes, first, applied, configVars,
                 worldVars, calls>>

\* text = self.get_field_content(editor), the empty check, the length check
process_text_input ==
  /\ pc = "get_field_content"
  /\ text' = Str(get_field_content(note))
  /\ field_read' = TRUE
  /\ IF IsEmptyText(get_field_content(note))
        \/ TooLong(get_field_content(note), max_chars)
     THEN ReturnFalse
     ELSE pc' = "clear_audio_field" /\ ret' = ret
  /\ UNCHANGED <<speech_rate, result, passes, first, applied, configVars,
                 worldVars, audio_path, calls, note_at_call, normalized,
                 cleared, synth_calls, created>>

\* self.clear_audio_field(editor)
process_text_clear ==
  /\ pc = "clear_audio_field"
  /\ note' = clear_audio_field(note)
  /\ cleared' = TRUE
  /\ pc' = "create_audio_file"
  /\ UNCHANGED <<normVars, configVars, files, media, clock, audio_path, ret,
                 calls, note_at_call, field_read, normalized, synth_calls,
                 created>>

\* audio_path = self.create_audio_file(text): normalize, send the request
\* (the vendor answers or the call throws), write the temporary file
process_text_create ==
  /\ pc = "create_audio_file"
  /\ IF ~enabled \/ ~SPEECHIFY_AVAILABLE
     THEN /\ ReturnFalse
          /\ UNCHANGED <<result, passes, normalized, synth_calls, files,
                         created, audio_path>>
     ELSE \E call \in {Call_process_text_for_tts(text, speech_rate)} :
            /\ result' = call.result
            /\ passes' = call.passes
            /\ normalized' = TRUE
            /\ IF IsEmptyText(call.result)
               THEN /\ ReturnFalse
                    /\ UNCHANGED <<synth_calls, files, created, audio_path>>
               ELSE /\ synth_calls' = synth_calls + 1
                    /\ \E outcome \in {"audio", "error"} :
                         IF outcome = "audio"
                         THEN /\ files' = files \cup {TempPath(clock)}
                              /\ created' = created \cup {TempPath(clock)}
                              /\ audio_path' = TempPath(clock)
                              /\ pc' = "add_audio_to_note"
                              /\ ret' = ret
                         ELSE /\ ReturnFalse
                              /\ UNCHANGED <<files, created, audio_path>>
  /\ UNCHANGED <<text, speech_rate, first, applied, configVars, note, media,
                 clock, calls, note_at_call, field_read, cleared>>

\* success = self.add_audio_to_note(editor, audio_path): the media
\* collection takes the file or throws; the reference goes into the first
\* audio field found
process_text_add ==
  /\ pc = "add_audio_to_note"
  /\ \E outcome \in {"stored", "error"} :
       LET stored == audio_path \in files /\ outcome = "stored"
           field == FindAudioField(note)
           success == stored /\ field # ""
       IN  /\ media' = IF stored THEN media \cup {audio_path} ELSE media
           /\ note' = IF success THEN SetField(note, field, Sound(audio_path))
                      ELSE note
           /\ IF success THEN pc' = "loadNote" /\ ret' = ret ELSE ReturnFalse
  /\ UNCHANGED <<normVars, configVars, files, clock, audio_path, calls,
                 traceVars>>

\* editor.loadNote(), os.remove(audio_path), return True; an exception of
\* loadNote is caught by the handler of process_text, which returns False
process_text_finish ==
  /\ pc = "loadNote"
  /\ \E outcome \in {"loaded", "error"} :
       IF outcome = "loaded"
       THEN files' = files \ {audio_path} /\ ret' = TRUE
       ELSE files' = files /\ ret' = FALSE
  /\ pc' = "returned"
  /\ UNCHANGED <<normVars, configVars, note, media, clock, audio_path, calls,
                 traceVars>>

\* The caller has the return value.
Return ==
  /\ pc = "returned"
  /\ pc' = "idle"
  /\ calls' = calls + 1
  /\ UNCHANGED <<normVars, configVars, worldVars, audio_path, ret, traceVars>>

\* A second passes between two calls.
Tick ==
  /\ pc = "idle"
  /\ clock < MaxCalls
  /\ clock' = clock + 1
  /\ UNCHANGED <<normVars, configVars, note, files, media, callVars,
                 traceVars>>

Next ==
  \/ process_text_config
  \/ process_text_input
  \/ process_text_clear
  \/ process_text_create
  \/ process_text_add
  \/ process_text_finish
  \/ Return
  \/ Tick

Spec == Init /\ [][Next]_vars

----------------------------------------------------------------------------
(* SpeechifyTTSProcessor.__init__: the voice id                            *)

\* Norwegian voice recommendations for Speechify
norwegian_voices ==
  [n \in {"Emma", "Rachel", "Domi", "Bella", "Antoni", "Josh", "Arnold",
          "Adam", "Sam"} |-> "scott"]

\* The voice named by tts_voice, whatever voice id is configured.
VoiceIdByName(id, name) ==
  IF name \in DOMAIN norwegian_voices THEN norwegian_voices[name] ELSE "scott"

\* Set voice ID based on voice name (only if no custom voice_id is provided)
ResolveVoiceId(id, name) ==
  IF id = "" \/ id = "scott"
  THEN IF name \in DOMAIN norwegian_voices
       THEN norwegian_voices[name]
       ELSE "scott"
  ELSE id

DefaultMaxChars == 40000
DefaultSpeechRate == 8

VoiceIds == {Missing, "", "scott", "custom_voice", "henry"}
VoiceNames == (DOMAIN norwegian_voices) \cup {Missing, "", "Nora"}
Configs ==
  [tts_enabled : {Missing, "True", "False"}, speechify_voice_id : VoiceIds,
   tts_voice : VoiceNames]

\* Before construction: a configuration mapping and the import result.
InitVoice ==
  /\ text = None
  /\ speech_rate = DefaultSpeechRate
  /\ result = <<>>
  /\ passes = NoPasses
  /\ first = <<>>
  /\ applied = 0
  /\ SPEECHIFY_AVAILABLE \in BOOLEAN
  /\ enabled = FALSE
  /\ api_key = ""
  /\ max_chars = 0
  /\ config \in Configs
  /\ voice_name = Missing
  /\ voice_id = Missing
  /\ constructed = FALSE
  /\ note = NoNote
  /\ files = {}
  /\ media = {}
  /\ clock = 1
  /\ ProcIdle

\* processor = SpeechifyTTSProcessor(config)
Construct ==
  /\ ~constructed
  /\ enabled' = IF ~SPEECHIFY_AVAILABLE THEN FALSE
                ELSE Get(config.tts_enabled, "True") = "True"
  /\ max_chars' = DefaultMaxChars
  /\ api_key' = ""
  /\ speech_rate' = DefaultSpeechRate
  /\ voice_name' = Get(config.tts_voice, "Emma")
  /\ voice_id' = ResolveVoiceId(Get(config.speechify_voice_id, "scott"),
                                Get(config.tts_voice, "Emma"))
  /\ constructed' = TRUE
  /\ UNCHANGED <<text, result, passes, first, applied, SPEECHIFY_AVAILABLE,
                 config, worldVars, callVars, traceVars>>

NextVoice == Construct

SpecVoice == InitVoice /\ [][NextVoice]_vars

----------------------------------------------------------------------------
(* Properties of process_text_for_tts (checked under SpecNorm)              *)

Count(s, c) == Cardinality({i \in 1..Len(s) : s[i] = c})

IsBlank(s) == \A i \in 1..Len(s) : IsSpace(s[i])

StartsWith(s, p) == Len(p) <= Len(s) /\ SubSeq(s, 1, Len(p)) = p
EndsWith(s, p) == Len(p) <= Len(s) /\ SubSeq(s, Len(s) - Len(p) + 1, Len(s)) = p

\* The rate-control wrapper of the vendor's dialect, written out per rate.
RateText(r) ==
  CASE r = 8  -> <<"0", ".", "8">>
    [] r = 10 -> <<"1", ".", "0">>
    [] r = 15 -> <<"1", ".", "5">>

WrapperOpen(r) ==
  <<"<","p","r","o","s","o","d","y"," ","r","a","t","e","=","\"">>
    \o RateText(r) \o <<"\"", ">">>
WrapperClose == <<"<","/","p","r","o","s","o","d","y",">">>

IsWrapped(s, r) ==
  /\ Len(s) >= Len(WrapperOpen(r)) + Len(WrapperClose)
  /\ StartsWith(s, WrapperOpen(r))
  /\ EndsWith(s, WrapperClose)

\* What is spoken: the output without its rate-control wrapper.
Spoken(s, r) ==
  IF r # 10 /\ IsWrapped(s, r)
  THEN SubSeq(s, Len(WrapperOpen(r)) + 1, Len(s) - Len(WrapperClose))
  ELSE s

\* Only pause markers (runs of two or three periods) and spaces.
PauseOnly(s) ==
  /\ s # <<>>
  /\ \A i \in 1..Len(s) : s[i] \in {".", " "}
  /\ \A i \in 1..Len(s) :
       (s[i] = "." /\ (i = 1 \/ s[i - 1] # ".")) => RunLen(s, i, ".") \in {2, 3}

\* C5 (as claimed): when the text after all passes is empty or blank the
\* call returns the empty string, and no call returns pause markers only.
C5_EmptyShortCircuit ==
  applied >= 1 =>
    /\ IsBlank(passes.clean) => result = <<>>
    /\ ~PauseOnly(Spoken(result, speech_rate))

IsAlnum(c) ==
  \/ \E k \in 1..26 : c = LowerCase[k] \/ c = UpperCase[k]
  \/ \E k \in 1..10 : c = Digits[k]
  \/ c = "#"

\* <...> with something between the brackets
HasTag(s) ==
  \E i \in 1..Len(s) : \E j \in (i + 2)..Len(s) :
    s[i] = "<" /\ s[j] = ">" /\ \A k \in (i + 1)..(j - 1) : s[k] # ">"

\* &name; or &#number;
HasEntity(s) ==
  \E i \in 1..Len(s) : \E j \in (i + 2)..Len(s) :
    s[i] = "&" /\ s[j] = ";" /\ \A k \in (i + 1)..(j - 1) : IsAlnum(s[k])

\* C6 (as claimed): the output holds no HTML tag and no unresolved HTML
\* entity (the rate-control wrapper set aside).
C6_NoMarkup ==
  applied >= 1 =>
    /\ ~HasTag(Spoken(result, speech_rate))
    /\ ~HasEntity(Spoken(result, speech_rate))

\* The marker a maximal run of n periods stands for.
RunMarker(n) ==
  IF n >= 3 THEN <<" ", ".", ".", ".", " ">>
  ELSE IF n = 2 THEN <<" ", ".", ".", " ">> ELSE <<".">>

\* Every maximal run of periods of s replaced as a whole by its marker.
RECURSIVE CollapseRuns(_, _)
CollapseRuns(s, i) ==
  IF i > Len(s) THEN <<>>
  ELSE IF s[i] = "."
       THEN RunMarker(RunLen(s, i, ".")) \o CollapseRuns(s, i + RunLen(s, i, "."))
       ELSE <<s[i]>> \o CollapseRuns(s, i + 1)

\* C7: the dot pass replaces every maximal run of n periods of the text
\* reaching it as a whole: n >= 3 by the long pause marker, n = 2 by the
\* short one, n = 1 left as it is (text holding no placeholder token).
C7_DotRuns ==
  (applied >= 1 /\ Count(passes.reach_dots, LANGLE) = 0) =>
    passes.after_dots = CollapseRuns(passes.reach_dots, 1)

\* a run of five or more periods has reached the dot pass
C7_Witness ==
  /\ applied = 1
  /\ \E i \in 1..Len(passes.reach_dots) : RunLen(passes.reach_dots, i, ".") >= 5

\* The hyphens of s with whitespace on both sides.
BoundedHyphens(s) ==
  {i \in 2..(Len(s) - 1) : s[i] = "-" /\ IsSpace(s[i - 1]) /\ IsSpace(s[i + 1])}

\* C8 (as claimed): the dash pass converts every hyphen that has whitespace
\* on both sides and no other hyphen.
C8_Hyphens ==
  applied >= 1 =>
    Count(passes.after_dash, "-") =
      Count(passes.reach_dash, "-") - Cardinality(BoundedHyphens(passes.reach_dash))

\* C9 (as claimed): applying the function to its own output returns that
\* output.
C9_Idempotent == applied = 2 => result = first

NoAngle(s) == Count(s, "<") = 0 /\ Count(s, ">") = 0

\* Enclosed by exactly one wrapper carrying rate r, around the text the
\* other passes produced.
WrappedOnce(s, r) ==
  /\ s = WrapperOpen(r) \o passes.clean \o WrapperClose
  /\ NoAngle(passes.clean)

RateWrapping ==
  IF speech_rate # 10
  THEN WrappedOnce(result, speech_rate)
  ELSE result = passes.clean /\ NoAngle(result)

\* C10 (as claimed): for every input, a rate other than 1.0 encloses the
\* output in exactly one wrapper and the rate 1.0 adds none.
C10_Wrapped == applied >= 1 => RateWrapping

\* C10 (amended): the same for every input that is a non-empty string.
C10_WrappedNonEmpty == (applied >= 1 /\ ~NoText(text)) => RateWrapping

\* markup was stripped from the text and the rest wrapped at rate 1.5
C10_Witness ==
  /\ applied = 1
  /\ speech_rate = 15
  /\ HasTag(text.val)
  /\ passes.clean # <<>>
  /\ IsWrapped(result, 15)

----------------------------------------------------------------------------
(* Properties of process_text (checked under Spec)                         *)

ConfigError ==
  \/ ~enabled
  \/ ~SPEECHIFY_AVAILABLE
  \/ api_key \in {"", "your-api-key-here"}

\* The second field of the note as it was when process_text was called.
RawField ==
  IF Len(note_at_call.fields) >= 2 THEN note_at_call.fields[2] ELSE <<>>

InputError == IsBlank(RawField) \/ Len(RawField) > max_chars

\* One of the audio fields holds the reference to the file of this call.
HoldsNewSound ==
  \E i \in 1..Len(note.names) :
    /\ note.names[i] \in {"Audio", "audio", "Sound", "sound"}
    /\ note.fields[i] = <<"[sound:">> \o audio_path \o <<"]">>

\* C1 (as claimed): process_text returns True with the whole pipeline done
\* and the new reference in the audio field, or returns False with every
\* field of the note as it was before the call.
C1_AllOrNothing ==
  pc = "returned" =>
    \/ ret /\ field_read /\ normalized /\ synth_calls = 1 /\ HoldsNewSound
    \/ ~ret /\ note = note_at_call

\* C2 (as claimed): when process_text returns, no temporary audio file
\* written by that call exists any more.
C2_TempFileDeleted == pc = "returned" => created \cap files = {}

\* C3: called with a configuration error, process_text returns False, sends
\* no synthesis request, neither reads nor normalizes the field and leaves
\* every field of the note as it was.
C3_ConfigError ==
  (pc = "returned" /\ ConfigError) =>
    /\ ~ret
    /\ synth_calls = 0
    /\ ~field_read
    /\ ~normalized
    /\ created = {}
    /\ note = note_at_call

\* the placeholder key, on a note with text to speak and an old recording
C3_Witness ==
  /\ pc = "returned"
  /\ enabled
  /\ SPEECHIFY_AVAILABLE
  /\ api_key = "your-api-key-here"
  /\ ~InputError
  /\ \E i \in 1..Len(note.fields) : note.fields[i] = OldSound

\* C4: with the field empty, blank or longer than max_chars, process_text
\* returns False with nothing normalized, cleared, synthesized or written;
\* a text of up to max_chars characters (the limit included) goes on to the
\* clearing of the audio field and to normalization.
C4_InputError ==
  pc = "returned" =>
    /\ InputError =>
         /\ ~ret
         /\ ~normalized
         /\ ~cleared
         /\ synth_calls = 0
         /\ created = {}
         /\ note = note_at_call
    /\ (~ConfigError /\ ~InputError) => (field_read /\ cleared /\ normalized)

\* a text one character over the limit, on a note with an old recording
C4_Witness ==
  /\ pc = "returned"
  /\ ~ConfigError
  /\ field_read
  /\ Len(RawField) = max_chars + 1
  /\ \E i \in 1..Len(note.fields) : note.fields[i] = OldSound

----------------------------------------------------------------------------
(* Further properties of process_text_for_tts (checked under SpecNorm)      *)

IsLetter(c) == \E k \in 1..26 : c = LowerCase[k] \/ c = UpperCase[k]

IsSeparator(c) == c = "|" \/ c = "-"

\* An angle-bracket pair with nothing or one space between the brackets.
EmptyBrackets == {<<"<", ">">>, <<"<", " ", ">">>}

\* Where s ends once a trailing empty bracket pair and the whitespace in
\* front of it are taken off.
BodyEnd(s) ==
  LET cut == IF \E b \in EmptyBrackets : EndsWith(s, b)
             THEN Len(s) - Len(CHOOSE b \in EmptyBrackets : EndsWith(s, b))
             ELSE Len(s)
      kept == {j \in 1..cut : ~IsSpace(s[j])}
  IN  IF kept = {} THEN 0 ELSE CHOOSE j \in kept : \A k \in kept : k <= j

Body(s) == SubSeq(s, 1, BodyEnd(s))

\* Plain words joined by pipes (whitespace around them optional) and by
\* hyphens with whitespace on both sides: one separator between two words.
JoinedWords(s) ==
  /\ s # <<>>
  /\ IsLetter(s[1])
  /\ IsLetter(s[Len(s)])
  /\ \A i \in 1..Len(s) : IsLetter(s[i]) \/ IsSpace(s[i]) \/ IsSeparator(s[i])
  /\ \A i \in 1..Len(s) :
       s[i] = "-" => (IsSpace(s[i - 1]) /\ IsSpace(s[i + 1]))
  /\ \A i \in 1..Len(s) : \A j \in (i + 1)..Len(s) :
       (IsSeparator(s[i]) /\ IsSeparator(s[j])) =>
         \E m \in i..j : IsLetter(s[m])
  /\ \A i \in 1..Len(s) :
       IsSpace(s[i]) =>
         \E k \in 1..Len(s) :
           /\ IsSeparator(s[k])
           /\ \A m \in 1..Len(s) :
                ((i <= m /\ m <= k) \/ (k <= m /\ m <= i)) => ~IsLetter(s[m])

\* The words of s with ", " in place of whatever lies between two of them.
RECURSIVE JoinedByCommas(_, _)
JoinedByCommas(s, i) ==
  IF i > Len(s) THEN <<>>
  ELSE IF IsLetter(s[i]) THEN <<s[i]>> \o JoinedByCommas(s, i + 1)
  ELSE <<",", " ">> \o
         JoinedByCommas(s, First(i, Len(s), [j \in 1..Len(s) |-> IsLetter(s[j])]))

\* C11 (as claimed): words joined by pipes and whitespace-bounded hyphens
\* come out joined by exactly ", ", and a trailing empty bracket pair
\* ("< >" or "<>") adds no separator.
C11_SeparatorFolding ==
  (applied = 1 /\ text.type = "str" /\ JoinedWords(Body(text.val))) =>
    passes.clean = JoinedByCommas(Body(text.val), 1)

\* C12: for an input that is empty, None or not a string the function
\* returns "" at every speech rate, with no pass run and no wrapper added.
C12_NoTextEmpty ==
  (applied >= 1 /\ (text.type # "str" \/ text.val = <<>>)) =>
    (result = <<>> /\ passes = NoPasses)

\* a non-empty value that is not a string, at a rate that would wrap
C12_Witness ==
  /\ applied = 1
  /\ text.type # "str"
  /\ text.val # <<>>
  /\ speech_rate # 10
  /\ result = <<>>

\* No tag, entity, pipe, hyphen, angle bracket, period or annotation glyph.
PlainText(s) ==
  /\ \A i \in 1..Len(s) : s[i] \notin {"<", ">", "|", "-", ".", "U+1F538"}
  /\ ~HasEntity(s)

\* The positions of s that whitespace collapsing keeps: every character
\* that is no whitespace, and the first whitespace of a run that has such a
\* character on both sides.
KeptPositions(s) ==
  {i \in 1..Len(s) :
     \/ ~IsSpace(s[i])
     \/ /\ i > 1
        /\ ~IsSpace(s[i - 1])
        /\ \E j \in (i + 1)..Len(s) : ~IsSpace(s[j])}

\* s with every run of whitespace replaced by one space, and trimmed.
WhitespaceCollapsed(s) ==
  [k \in 1..Cardinality(KeptPositions(s)) |->
     LET i == CHOOSE p \in KeptPositions(s) :
                Cardinality({q \in KeptPositions(s) : q < p}) = k - 1
     IN  IF IsSpace(s[i]) THEN " " ELSE s[i]]

\* A newline with other text on both sides.
HasInnerNewline(s) ==
  \E i \in 1..Len(s) :
    /\ s[i] = "\n"
    /\ \E j \in 1..(i - 1) : ~IsSpace(s[j])
    /\ \E j \in (i + 1)..Len(s) : ~IsSpace(s[j])

\* C13 (as claimed): for an input with no markup and no special character
\* the output (the rate-control wrapper set aside) is the input with every
\* run of whitespace, newlines included, replaced by one space, and trimmed.
C13_PlainIdentity ==
  (applied >= 1 /\ text.type = "str" /\ PlainText(text.val)) =>
    Spoken(result, speech_rate) = WhitespaceCollapsed(text.val)

\* C13 (amended): for such an input with no newline between its words, the
\* text that is spoken (the output at rate 1.0, the content of the rate
\* wrapper otherwise) is the input with every run of whitespace replaced by
\* one space, and trimmed.
C13_PlainIdentityNoNewline ==
  (applied >= 1 /\ text.type = "str" /\ PlainText(text.val)
     /\ ~HasInnerNewline(text.val)) =>
    Spoken(result, speech_rate) = WhitespaceCollapsed(text.val)

\* words with a space and a tab between them, and whitespace to trim
C13_Witness ==
  /\ applied = 1
  /\ text.type = "str"
  /\ PlainText(text.val)
  /\ ~HasInnerNewline(text.val)
  /\ \E i \in 2..(Len(text.val) - 2) :
       /\ IsLetter(text.val[i - 1])
       /\ text.val[i] = " "
       /\ text.val[i + 1] = "\t"
       /\ IsLetter(text.val[i + 2])
  /\ Len(result) > 0

----------------------------------------------------------------------------
(* Properties of the constructor (checked under SpecVoice)                 *)

\* C14: after construction, a configured speechify_voice_id that is neither
\* empty nor "scott" is the voice id whatever tts_voice is; with the id
\* missing, empty or "scott" the voice id is "scott" for every voice name.
C14_VoiceId ==
  constructed =>
    IF config.speechify_voice_id \in {"<missing>", "", "scott"}
    THEN voice_id = "scott"
    ELSE voice_id = config.speechify_voice_id

\* a custom voice id configured together with a voice name of the table
C14_Witness ==
  /\ constructed
  /\ config.speechify_voice_id = "custom_voice"
  /\ config.tts_voice = "Rachel"
  /\ voice_name = "Rachel"
  /\ voice_id = "custom_voice"

====
